---------------------------- MODULE Spec2Model ----------------------------
(***************************************************************************)
(* Correspondence routing workflow of Tics-Digecur                         *)
(* (src/correspondencia/correspondencia.controller.js, its model and its   *)
(* routes).  One case ("expediente") is followed through the handlers of   *)
(* the controller.  Every handler is a pure operator from the document it  *)
(* read and the request to a response status and the sequence of           *)
(* doc.save() calls it makes; the actions apply the handlers either as one *)
(* step (Spec) or split into read / save / respond steps of two requests   *)
(* in flight (SpecConc).                                                   *)
(*                                                                         *)
(* Not modelled: the write-only fields of a history record (at, notes,     *)
(* actorUserId, actorDept, actorRole), the free-text intake fields and the *)
(* labels derived from ids; no handler reads them.                         *)
(***************************************************************************)
EXTENDS Integers, Sequences, FiniteSets, TLC

NULL == "null"

\* a path that was never set; save() sends a path assigned null over it
UNDEFINED == "undefined"

(***************************************************************************)
(* Bounds                                                                  *)
(***************************************************************************)
\* longest history the model follows (the shortest route to ARCHIVADO has 13
\* records)
MaxHist == 14
\* how many times a case may be sent to Direction
MaxSends == 2
\* longest history followed while two requests are in flight
MaxHistConc == 6

(***************************************************************************)
(* Strings: JavaScript's normalize('NFD'), toUpperCase, toLowerCase, trim  *)
(* on the characters the names of this system use.  A combining mark is    *)
(* written with its spacing form: "´" stands for U+0301, "~" for U+0303.   *)
(***************************************************************************)
LowerAZ == "abcdefghijklmnopqrstuvwxyz"
UpperAZ == "ABCDEFGHIJKLMNOPQRSTUVWXYZ"
LowerAcc == "áéíóúñ"
UpperAcc == "ÁÉÍÓÚÑ"
\* base letter and combining mark of each precomposed letter, by position
BaseLowerAcc == "aeioun"
BaseUpperAcc == "AEIOUN"
MarkAcc == "´´´´´~"
CombiningMarks == {"´", "~"}

CharAt(s, i) == SubSeq(s, i, i)

IndexIn(c, alphabet) ==
  IF \E i \in 1..Len(alphabet) : CharAt(alphabet, i) = c
  THEN CHOOSE i \in 1..Len(alphabet) : CharAt(alphabet, i) = c
  ELSE 0

RECURSIVE MapChars(_, _)
MapChars(Op(_), s) ==
  IF Len(s) = 0 THEN "" ELSE Op(CharAt(s, 1)) \o MapChars(Op, SubSeq(s, 2, Len(s)))

\* String.prototype.normalize('NFD') on one character
nfdChar(c) ==
  IF IndexIn(c, LowerAcc) # 0
  THEN CharAt(BaseLowerAcc, IndexIn(c, LowerAcc)) \o CharAt(MarkAcc, IndexIn(c, LowerAcc))
  ELSE IF IndexIn(c, UpperAcc) # 0
  THEN CharAt(BaseUpperAcc, IndexIn(c, UpperAcc)) \o CharAt(MarkAcc, IndexIn(c, UpperAcc))
  ELSE c

\* replace(/[\u0300-\u036f]/g, '') on one character
stripMarkChar(c) == IF c \in CombiningMarks THEN "" ELSE c

upperChar(c) ==
  IF IndexIn(c, LowerAZ) # 0 THEN CharAt(UpperAZ, IndexIn(c, LowerAZ))
  ELSE IF IndexIn(c, LowerAcc) # 0 THEN CharAt(UpperAcc, IndexIn(c, LowerAcc))
  ELSE c

lowerChar(c) ==
  IF IndexIn(c, UpperAZ) # 0 THEN CharAt(LowerAZ, IndexIn(c, UpperAZ))
  ELSE IF IndexIn(c, UpperAcc) # 0 THEN CharAt(LowerAcc, IndexIn(c, UpperAcc))
  ELSE c

toUpperCase(s) == MapChars(upperChar, s)
toLowerCase(s) == MapChars(lowerChar, s)

RECURSIVE trimStart(_)
trimStart(s) ==
  IF Len(s) > 0 /\ CharAt(s, 1) = " " THEN trimStart(SubSeq(s, 2, Len(s))) ELSE s

RECURSIVE trimEnd(_)
trimEnd(s) ==
  IF Len(s) > 0 /\ CharAt(s, Len(s)) = " " THEN trimEnd(SubSeq(s, 1, Len(s) - 1)) ELSE s

trim(s) == trimEnd(trimStart(s))

\* String(s) of a value that may be undefined/null, with a default of ''
Str(s) == IF s \in {NULL, UNDEFINED} THEN "" ELSE s

\* controller: normStr
normStr(s) == trim(toUpperCase(MapChars(stripMarkChar, MapChars(nfdChar, Str(s)))))


\* Array.prototype.includes / find on a sequence
Includes(list, v) == \E i \in 1..Len(list) : list[i] = v

MapSeq(Op(_), list) == [i \in 1..Len(list) |-> Op(list[i])]

\* authorize-dept-role.js: norm
norm(s) == toUpperCase(trim(Str(s)))

RECURSIVE Flat(_)
Flat(lists) == IF Len(lists) = 0 THEN <<>> ELSE Head(lists) \o Flat(Tail(lists))


(***************************************************************************)
(* Enumerations and static configuration                                   *)
(***************************************************************************)
\* user.model.js: the department enum, with every name the workflow uses
DEPARTAMENTOS ==
  << "DIRECCION", "AREA ADMINISTRATIVA", "AREA FINANCIERA",
     "AREA DE MATERIALES EDUCATIVOS", "DESAROLLO", "PRIMARIA", "EVALUACION",
     "INICIAL Y PREPRIMARIA", "BASICO", "DIVERSIFICADO",
     "SUBDIRECCION EVALUACION CURRICULAR",
     "SUBDIRECCION DISEÑO Y DESAROLLO CURRICULAR" >>

\* user.model.js: the role enum, with every role the workflow uses
ROLES ==
  << "ADMIN", "DESAROLLADOR", "DIRECTOR", "SUBDIRECTOR", "JEFE", "TECNICO",
     "ASISTENTE" >>

EN_RECEPCION == "EN_RECEPCION"
EN_DIRECCION_POR_INSTRUIR == "EN_DIRECCION_POR_INSTRUIR"
EN_DIRECCION_POR_REASIGNAR == "EN_DIRECCION_POR_REASIGNAR"
EN_SUBDIRECCION_POR_RECIBIR == "EN_SUBDIRECCION_POR_RECIBIR"
RECIBIDO_EN_SUBDIRECCION == "RECIBIDO_EN_SUBDIRECCION"
EN_DEPARTAMENTO_POR_RECIBIR == "EN_DEPARTAMENTO_POR_RECIBIR"
RECIBIDO_EN_DEPARTAMENTO == "RECIBIDO_EN_DEPARTAMENTO"
ASIGNADO_A_TECNICO == "ASIGNADO_A_TECNICO"
EN_TRABAJO_TECNICO == "EN_TRABAJO_TECNICO"
RESUELTO_POR_TECNICO == "RESUELTO_POR_TECNICO"
EN_SUBDIRECCION_REVISION == "EN_SUBDIRECCION_REVISION"
EN_DIRECCION_REVISION_FINAL == "EN_DIRECCION_REVISION_FINAL"
EN_RECEPCION_PARA_ARCHIVO == "EN_RECEPCION_PARA_ARCHIVO"
ARCHIVADO == "ARCHIVADO"
EN_RECEPCION_CORRECCION == "EN_RECEPCION_CORRECCION"

CORR_ESTADOS ==
  { EN_RECEPCION, EN_DIRECCION_POR_INSTRUIR, EN_DIRECCION_POR_REASIGNAR,
    EN_SUBDIRECCION_POR_RECIBIR, RECIBIDO_EN_SUBDIRECCION,
    EN_DEPARTAMENTO_POR_RECIBIR, RECIBIDO_EN_DEPARTAMENTO,
    ASIGNADO_A_TECNICO, EN_TRABAJO_TECNICO, RESUELTO_POR_TECNICO,
    EN_SUBDIRECCION_REVISION, EN_DIRECCION_REVISION_FINAL,
    EN_RECEPCION_PARA_ARCHIVO, ARCHIVADO, EN_RECEPCION_CORRECCION }

SUBDIRS ==
  << "SUBDIRECCION EVALUACION CURRICULAR",
     "SUBDIRECCION DISEÑO Y DESAROLLO CURRICULAR" >>

DEPTS_SIN_SUBDIRECTOR ==
  << "AREA FINANCIERA", "AREA DE MATERIALES EDUCATIVOS", "AREA ADMINISTRATIVA" >>

\* SUBDIR_MAP: the keys in SUBDIRS order, Object.values(SUBDIR_MAP) by position
SUBDIR_MAP_VALUES ==
  << << "PRIMARIA", "EVALUACION", "DESAROLLO" >>,
     << "INICIAL Y PREPRIMARIA", "BASICO", "DIVERSIFICADO" >> >>

\* routes: allow-lists of the route guards
RECEPCION_DEPTS == << "AREA ADMINISTRATIVA", "DESAROLLO" >>
RECEPCION_ROLES == << "ASISTENTE", "DESAROLLADOR", "ADMIN" >>
DIR_DEPTS == << "DIRECCION", "DESAROLLO" >>
DIR_ROLES == << "DIRECTOR", "DESAROLLADOR", "ADMIN" >>
SUBDIR_DEPTS ==
  << "SUBDIRECCION EVALUACION CURRICULAR",
     "SUBDIRECCION DISEÑO Y DESAROLLO CURRICULAR", "DESAROLLO" >>
SUBDIR_ROLES == << "SUBDIRECTOR", "DESAROLLADOR", "ADMIN" >>
JEFE_ROLES == << "JEFE", "DESAROLLADOR", "ADMIN" >>
TEC_ROLES == << "TECNICO", "DESAROLLADOR", "ADMIN" >>

(***************************************************************************)
(* The user collection: one user per role of the hierarchy and one         *)
(* super-role user.  An _id is a 24-digit hexadecimal ObjectId, an email   *)
(* is stored lower-case (UserSchema.email: lowercase).                     *)
(***************************************************************************)
idA == "64a000000000000000000001"
idD == "64a000000000000000000002"
idS == "64a000000000000000000003"
idJ == "64a000000000000000000004"
idT == "64a000000000000000000005"
idX == "64a000000000000000000006"
\* a well-formed ObjectId that no user has
idNone == "64a0000000000000000000ff"

UserDocs ==
  { [_id |-> idA, email |-> "asistente@digecur.gt",
     departamento |-> "AREA ADMINISTRATIVA", roles |-> << "ASISTENTE" >>],
    [_id |-> idD, email |-> "director@digecur.gt",
     departamento |-> "DIRECCION", roles |-> << "DIRECTOR" >>],
    [_id |-> idS, email |-> "subdir@digecur.gt",
     departamento |-> "SUBDIRECCION EVALUACION CURRICULAR",
     roles |-> << "SUBDIRECTOR" >>],
    [_id |-> idJ, email |-> "jefe@digecur.gt",
     departamento |-> "PRIMARIA", roles |-> << "JEFE" >>],
    [_id |-> idT, email |-> "tec@digecur.gt",
     departamento |-> "PRIMARIA", roles |-> << "TECNICO" >>],
    [_id |-> idX, email |-> "dev@digecur.gt",
     departamento |-> "DESAROLLO", roles |-> << "ADMIN" >>] }

UserIds == { u._id : u \in UserDocs }

\* the null a lookup returns when no user matches
NoUser == [_id |-> NULL, email |-> NULL, departamento |-> NULL, roles |-> <<>>]

\* User.findById(id).lean()
UserFindById(id) ==
  IF \E u \in UserDocs : u._id = id THEN CHOOSE u \in UserDocs : u._id = id ELSE NoUser

\* User.findOne({ email }).lean()
UserFindOneByEmail(email) ==
  IF \E u \in UserDocs : u.email = email
  THEN CHOOSE u \in UserDocs : u.email = email
  ELSE NoUser

HexDigits == "0123456789abcdefABCDEF"

\* mongoose.isValidObjectId on a string
isValidObjectId(s) ==
  \/ Len(s) = 12
  \/ /\ Len(s) = 24
     /\ \A i \in 1..24 : IndexIn(CharAt(s, i), HexDigits) # 0

(***************************************************************************)
(* Request inputs: the values the requests of the model carry              *)
(***************************************************************************)
NoUrl == [kind |-> "missing", hostname |-> "", pathname |-> "", searchParams |-> {}]

\* a file link, a folder link, a link to another site, a short folder link
\* and a string new URL() rejects
UrlInputs ==
  { [kind |-> "url", hostname |-> "digecur.sharepoint.com", pathname |-> "/:w:/g/doc",
     searchParams |-> {}],
    [kind |-> "url", hostname |-> "digecur.sharepoint.com", pathname |-> "/:f:/g/dir",
     searchParams |-> {}],
    [kind |-> "url", hostname |-> "example.com", pathname |-> "/doc",
     searchParams |-> {"id"}],
    [kind |-> "url", hostname |-> "1drv.ms", pathname |-> "/f/s!abc",
     searchParams |-> {}],
    [kind |-> "malformed", hostname |-> "", pathname |-> "", searchParams |-> {}] }

SubdirInputs ==
  { "SUBDIRECCION EVALUACION CURRICULAR",
    "Subdirección Diseño y Desarollo Curricular",
    "SUBDIRECCION GENERAL" }

DeptInputs == { "PRIMARIA", "Desarrollo", "INVENTARIO" }

InstruccionesInputs == { " Atender " }

\* req.body.jefeUserId: the supervisor, a user who is no supervisor, nobody
JefeInputs == { idJ, idT, idNone }

\* req.body.tecnicoUserId / tecnicoId: an _id, an email, an unknown email
TecnicoIdInput == idT
TecnicoEmailInput == " TEC@Digecur.gt "
TecnicoUnknownInput == "nadie@digecur.gt"

\* the department a caller may send along with jefeUserId
BodyDeptInput == "BASICO"

\* req.query of the list operation: the parameters that select on state and
\* ownership; NULL is a parameter left out
NoQuery ==
  [estado |-> NULL, anyState |-> NULL, ownerDept |-> NULL, ownerRole |-> NULL,
   ownerUserId |-> NULL]

EstadoInput == "ARCHIVADO, EN_RECEPCION_PARA_ARCHIVO"

QueryInputs ==
  { NoQuery,
    [NoQuery EXCEPT !.anyState = "All"],
    [NoQuery EXCEPT !.ownerRole = "JEFE", !.anyState = "1"],
    [NoQuery EXCEPT !.ownerRole = "TECNICO", !.anyState = "1"],
    [NoQuery EXCEPT !.ownerDept = "BASICO"],
    [NoQuery EXCEPT !.estado = EstadoInput] }

\* String.prototype.split(sep) with a one-character separator
FirstIndexOf(c, s) ==
  IF \E i \in 1..Len(s) : CharAt(s, i) = c
  THEN CHOOSE i \in 1..Len(s) :
         CharAt(s, i) = c /\ \A j \in 1..(i - 1) : CharAt(s, j) # c
  ELSE 0

RECURSIVE Split(_, _)
Split(s, sep) ==
  IF FirstIndexOf(sep, s) = 0 THEN << s >>
  ELSE << SubSeq(s, 1, FirstIndexOf(sep, s) - 1) >>
         \o Split(SubSeq(s, FirstIndexOf(sep, s) + 1, Len(s)), sep)

(***************************************************************************)
(* Names handed to the canonicalization functions: the two spellings of    *)
(* the department in every mix of upper and lower case and with every      *)
(* choice of accented vowels, and the names of the subdirections as        *)
(* stored, lower-cased, without accents, with every vowel accented and     *)
(* padded with blanks; two names of no list                                *)
(***************************************************************************)
SeqRange(list) == { list[i] : i \in 1..Len(list) }

RECURSIVE Variants(_, _)
Variants(Alt(_), s) ==
  IF Len(s) = 0 THEN {""}
  ELSE { c \o r : c \in Alt(CharAt(s, 1)), r \in Variants(Alt, SubSeq(s, 2, Len(s))) }

caseAlt(c) == { upperChar(c), lowerChar(c) }

accented(c) ==
  IF IndexIn(c, BaseLowerAcc) # 0 THEN CharAt(LowerAcc, IndexIn(c, BaseLowerAcc))
  ELSE IF IndexIn(c, BaseUpperAcc) # 0 THEN CharAt(UpperAcc, IndexIn(c, BaseUpperAcc))
  ELSE c

accentAlt(c) == { c, accented(c) }

DeptSpellings == { "DESARROLLO", "DESAROLLO" }

DeptVariants ==
  UNION { Variants(caseAlt, w) \cup Variants(accentAlt, w)
            \cup Variants(accentAlt, toLowerCase(w)) \cup { " " \o w \o " " } :
          w \in DeptSpellings }

SubdirVariants ==
  UNION { { x, toLowerCase(x), normStr(x), toLowerCase(normStr(x)),
            MapChars(accented, x), " " \o x \o " " } : x \in SeqRange(SUBDIRS) }

NameInputs == DeptVariants \cup SubdirVariants \cup { "SUBDIRECCION", "PRIMARIA" }

(***************************************************************************)
(* The string functions, tabulated on the strings of the model             *)
(***************************************************************************)

Vocabulary ==
  SeqRange(DEPARTAMENTOS) \cup SeqRange(ROLES) \cup SeqRange(SUBDIRS)
    \cup SeqRange(DEPTS_SIN_SUBDIRECTOR) \cup SeqRange(Flat(SUBDIR_MAP_VALUES))
    \cup SubdirInputs \cup DeptInputs \cup InstruccionesInputs \cup JefeInputs
    \cup { TecnicoIdInput, TecnicoEmailInput, TecnicoUnknownInput, BodyDeptInput, "" }
    \cup { "1", "All", EstadoInput } \cup SeqRange(Split(EstadoInput, ","))

TrimTable == [s \in Vocabulary |-> trim(s)]
TrimmedVocabulary == Vocabulary \cup { TrimTable[s] : s \in Vocabulary }
UpperTable == [s \in TrimmedVocabulary |-> toUpperCase(s)]
LowerTable == [s \in TrimmedVocabulary |-> toLowerCase(s)]
NormStrTable == [s \in Vocabulary |-> normStr(s)]
ObjectIdTable == [s \in TrimmedVocabulary |-> isValidObjectId(s)]

trimT(s) == TrimTable[s]
toUpperCaseT(s) == UpperTable[s]
toLowerCaseT(s) == LowerTable[s]
normStrT(s) == NormStrTable[Str(s)]
isValidObjectIdT(s) == ObjectIdTable[s]

SplitTable == [s \in {"", EstadoInput} |-> Split(s, ",")]

\* aliasDept after its normStr, without the alias
aliasOf_noAlias(n) == n

\* aliasDept after its normStr: n is the normalized name
aliasOf(n) == IF n = "DESARROLLO" THEN "DESAROLLO" ELSE n

\* controller: aliasDept
aliasDept(s) == aliasOf(normStrT(s))

\* canonicalFromList after its normStr(value): n is the normalized value
canonicalFound(n, value, list) ==
  IF \E i \in 1..Len(list) : normStrT(list[i]) = n
  THEN list[CHOOSE i \in 1..Len(list) :
              /\ normStrT(list[i]) = n
              /\ \A j \in 1..(i - 1) : normStrT(list[j]) # n]
  ELSE value

\* controller: canonicalFromList
canonicalFromList(value, list) == canonicalFound(normStrT(value), value, list)

\* validate-jwt.js: the principal attached to the request as req.user
ReqUser(id) ==
  [id |-> id, email |-> UserFindById(id).email,
   departamento |-> UserFindById(id).departamento,
   roles |-> UserFindById(id).roles]

\* req.user.roles.map(r => String(r).toUpperCase().trim()), once per user
RolesUpper == [id \in UserIds |-> MapSeq(LAMBDA r : trimT(toUpperCaseT(Str(r))), ReqUser(id).roles)]

\* req.user.roles.map(r => normStr(r)), once per user
RolesNorm == [id \in UserIds |-> MapSeq(normStrT, ReqUser(id).roles)]

(***************************************************************************)
(* authorize-dept-role.js                                                  *)
(***************************************************************************)
\* CANON_DEPS.get(key) / CANON_ROLES.get(key): new Map(enum.map(d => [norm(d), d]))
CanonGet(enum, key) ==
  IF \E i \in 1..Len(enum) : norm(enum[i]) = key
  THEN enum[CHOOSE i \in 1..Len(enum) :
              /\ norm(enum[i]) = key
              /\ \A j \in (i + 1)..Len(enum) : norm(enum[j]) # key]
  ELSE NULL

\* the set of canonical names an allow-list resolves to
canonAllow(list, enum) ==
  IF Includes(MapSeq(norm, list), "*") THEN {"*"}
  ELSE { CanonGet(enum, norm(list[i])) : i \in 1..Len(list) } \ {NULL}

\* requireDeptAndRole(allowedDepts, allowedRoles)(req): 0 when next() is
\* called, else the status of the response
requireDeptAndRole(allowedDepts, allowedRoles, u) ==
  LET allowDeps == canonAllow(allowedDepts, DEPARTAMENTOS)
      allowRoles == canonAllow(allowedRoles, ROLES)
      userDept == CanonGet(DEPARTAMENTOS, norm(u.departamento))
      userRolesCanon ==
        { CanonGet(ROLES, norm(u.roles[i])) : i \in 1..Len(u.roles) } \ {NULL}
      deptOk == "*" \in allowDeps \/ (userDept # NULL /\ userDept \in allowDeps)
      roleOk == "*" \in allowRoles \/ (userRolesCanon \cap allowRoles # {})
  IN  IF allowDeps = {} \/ allowRoles = {} THEN 500
      ELSE IF ~deptOk \/ ~roleOk THEN 403
      ELSE 0

(***************************************************************************)
(* The case document (CorrespondenciaSchema) and doc.save()                *)
(***************************************************************************)
NoDoc == [estado |-> "none"]

\* a pushHist that keeps only the new record
pushHist_overwrite(doc, action, fromState, toState) ==
  [doc EXCEPT !.historial =
     << [action |-> action, fromState |-> fromState, toState |-> toState] >>]

\* pushHist: the record appended to doc.historial
pushHist(doc, action, fromState, toState) ==
  [doc EXCEPT !.historial =
     Append(@, [action |-> action, fromState |-> fromState, toState |-> toState])]

\* the enum validators of CorrespondenciaSchema, run by create() and save()
SchemaValid(doc) ==
  /\ doc.estado \in CORR_ESTADOS
  /\ Includes(DEPARTAMENTOS, doc.ownerDept)
  /\ Includes(ROLES, doc.ownerRole)
  /\ doc.destinoTipo \in {"SUBDIRECCION", "DEPARTAMENTO", NULL}
  /\ \/ doc.destinoSubdireccion \in {NULL, UNDEFINED}
     \/ Includes(SUBDIRS, doc.destinoSubdireccion)
  /\ \/ doc.destinoDepartamento \in {NULL, UNDEFINED}
     \/ Includes(DEPARTAMENTOS, doc.destinoDepartamento)

\* the outcome of a handler: the status of its response and the documents it
\* handed to create()/save(), in order
Result(status, saves) == [status |-> status, saves |-> saves]

\* await doc.save() followed by the success response; a validation error
\* thrown by save() is caught by the handler and answered with 500
SaveAndRespond(doc, saved, status) ==
  IF SchemaValid(doc) THEN Result(status, Append(saved, doc)) ELSE Result(500, saved)

(***************************************************************************)
(* Handlers of correspondencia.controller.js                               *)
(***************************************************************************)
StartsWith(s, prefix) == Len(s) >= Len(prefix) /\ SubSeq(s, 1, Len(prefix)) = prefix
EndsWith(s, suffix) ==
  Len(s) >= Len(suffix) /\ SubSeq(s, Len(s) - Len(suffix) + 1, Len(s)) = suffix

\* a check that takes any SharePoint sharing link, folders included
isValidOneDriveFileUrl_folders(url) ==
  IF url.kind # "url" THEN FALSE
  ELSE IF url.hostname = "1drv.ms" THEN TRUE
  ELSE IF EndsWith(url.hostname, "sharepoint.com") THEN StartsWith(url.pathname, "/:")
  ELSE IF url.hostname = "onedrive.live.com"
  THEN "resid" \in url.searchParams \/ "id" \in url.searchParams
  ELSE FALSE

\* isValidOneDriveFileUrl on what new URL(u) yields: the lower-cased hostname,
\* the pathname and the names of the search parameters, or kind "malformed"
\* when it throws; kind "missing" is a request without onedriveUrl
isValidOneDriveFileUrl(url) ==
  IF url.kind # "url" THEN FALSE
  ELSE IF url.hostname = "1drv.ms" THEN ~StartsWith(url.pathname, "/f/")
  ELSE IF EndsWith(url.hostname, "sharepoint.com")
  THEN StartsWith(url.pathname, "/:") /\ ~StartsWith(url.pathname, "/:f:")
  ELSE IF url.hostname = "onedrive.live.com"
  THEN "resid" \in url.searchParams \/ "id" \in url.searchParams
  ELSE FALSE

createCorrespondencia(body) ==
  IF body.onedriveUrl.kind = "missing" \/ ~isValidOneDriveFileUrl(body.onedriveUrl)
  THEN Result(400, <<>>)
  ELSE LET created ==
             [estado |-> EN_RECEPCION,
              ownerDept |-> "AREA ADMINISTRATIVA",
              ownerRole |-> "ASISTENTE",
              ownerUserId |-> NULL,
              destinoTipo |-> NULL,
              destinoSubdireccion |-> UNDEFINED,
              destinoDepartamento |-> UNDEFINED,
              instruccionesDireccion |-> NULL,
              jefeAsignadoId |-> NULL,
              tecnicoAsignadoId |-> NULL,
              historial |-> <<>>]
       IN  IF ~SchemaValid(created) THEN Result(500, <<>>)
           ELSE SaveAndRespond(
                  pushHist(created, "RECEPCION_CREATE", NULL, EN_RECEPCION),
                  << created >>, 201)

\* a recepcionEnviarADireccion that moves the state and leaves the owner
recepcionEnviarADireccion_keepOwner(doc) ==
  IF doc = NoDoc THEN Result(404, <<>>)
  ELSE LET from == doc.estado
           d1 == [doc EXCEPT !.estado = EN_DIRECCION_POR_INSTRUIR]
       IN  SaveAndRespond(pushHist(d1, "RECEPCION->DIRECCION", from, d1.estado),
                          <<>>, 200)

\* a send that records the state the operation is meant to start from
recepcionEnviarADireccion_fromRecepcion(doc) ==
  IF doc = NoDoc THEN Result(404, <<>>)
  ELSE LET d1 == [doc EXCEPT !.estado = EN_DIRECCION_POR_INSTRUIR,
                             !.ownerDept = "DIRECCION",
                             !.ownerRole = "DIRECTOR",
                             !.ownerUserId = NULL]
       IN  SaveAndRespond(pushHist(d1, "RECEPCION->DIRECCION", EN_RECEPCION, d1.estado),
                          <<>>, 200)

recepcionEnviarADireccion(doc) ==
  IF doc = NoDoc THEN Result(404, <<>>)
  ELSE LET from == doc.estado
           d1 == [doc EXCEPT !.estado = EN_DIRECCION_POR_INSTRUIR,
                             !.ownerDept = "DIRECCION",
                             !.ownerRole = "DIRECTOR",
                             !.ownerUserId = NULL]
       IN  SaveAndRespond(pushHist(d1, "RECEPCION->DIRECCION", from, d1.estado),
                          <<>>, 200)

direccionInstruirYEnviar(doc, body) ==
  IF doc = NoDoc THEN Result(404, <<>>)
  ELSE IF doc.estado # EN_DIRECCION_POR_INSTRUIR /\ doc.estado # EN_DIRECCION_POR_REASIGNAR
  THEN Result(400, <<>>)
  ELSE
    LET d0 == [doc EXCEPT !.instruccionesDireccion = trimT(Str(body.instrucciones))]
        from == d0.estado
    IN  IF body.roleDestino = "SUBDIRECTOR"
        THEN IF ~Includes(MapSeq(normStrT, SUBDIRS), normStrT(body.subdireccion))
             THEN Result(400, <<>>)
             ELSE LET canonical == canonicalFromList(body.subdireccion, SUBDIRS)
                      d1 == [d0 EXCEPT !.destinoTipo = "SUBDIRECCION",
                                       !.destinoSubdireccion = canonical,
                                       !.destinoDepartamento = NULL,
                                       !.estado = EN_SUBDIRECCION_POR_RECIBIR,
                                       !.ownerDept = canonical,
                                       !.ownerRole = "SUBDIRECTOR",
                                       !.ownerUserId = NULL]
                  IN  SaveAndRespond(
                        pushHist(d1, "DIR_INSTRUYE_ENVIA", from, d1.estado), <<>>, 200)
        ELSE IF body.roleDestino = "JEFE"
        THEN LET deptNorm == aliasDept(body.departamento)
                 inSinSubdir == Includes(MapSeq(aliasDept, DEPTS_SIN_SUBDIRECTOR), deptNorm)
                 inSubdir == Includes(MapSeq(aliasDept, Flat(SUBDIR_MAP_VALUES)), deptNorm)
             IN  IF ~inSinSubdir /\ ~inSubdir
                 THEN Result(400, <<>>)
                 ELSE LET d1 == [d0 EXCEPT !.destinoTipo = "DEPARTAMENTO",
                                           !.destinoSubdireccion = NULL,
                                           !.destinoDepartamento = body.departamento,
                                           !.estado = EN_DEPARTAMENTO_POR_RECIBIR,
                                           !.ownerDept = body.departamento,
                                           !.ownerRole = "JEFE",
                                           !.ownerUserId = NULL]
                      IN  SaveAndRespond(
                            pushHist(d1, "DIR_INSTRUYE_ENVIA", from, d1.estado), <<>>, 200)
        ELSE Result(400, <<>>)

\* an accept that also takes the case out of the subdirection's name
subdireccionAceptar_ownerDept(doc) ==
  IF doc = NoDoc THEN Result(404, <<>>)
  ELSE IF doc.estado # EN_SUBDIRECCION_POR_RECIBIR THEN Result(400, <<>>)
  ELSE LET from == doc.estado
           d1 == [doc EXCEPT !.estado = RECIBIDO_EN_SUBDIRECCION,
                             !.ownerRole = "SUBDIRECTOR",
                             !.ownerDept = "DIRECCION"]
       IN  SaveAndRespond(pushHist(d1, "SUBDIR_ACEPTAR", from, d1.estado), <<>>, 200)

subdireccionAceptar(doc) ==
  IF doc = NoDoc THEN Result(404, <<>>)
  ELSE IF doc.estado # EN_SUBDIRECCION_POR_RECIBIR THEN Result(400, <<>>)
  ELSE LET from == doc.estado
           d1 == [doc EXCEPT !.estado = RECIBIDO_EN_SUBDIRECCION,
                             !.ownerRole = "SUBDIRECTOR"]
       IN  SaveAndRespond(pushHist(d1, "SUBDIR_ACEPTAR", from, d1.estado), <<>>, 200)

\* the condition of the implicit accept in subdireccionAsignarJefe
AutoAceptarSubdireccion_never(estadoActual, isCallerSubdirector) == FALSE

AutoAceptarSubdireccion(estadoActual, isCallerSubdirector) ==
  estadoActual = EN_SUBDIRECCION_POR_RECIBIR /\ isCallerSubdirector

\* the department the case goes to: taken from the body of the request
deptJefeOf_body(jefe, body) == trimT(Str(body.departamento))

\* the department the case goes to: always the one of the supervisor
deptJefeOf(jefe, body) == trimT(Str(jefe.departamento))

\* u is req.user, body.jefeUserId the supervisor to assign
subdireccionAsignarJefe(doc, u, body) ==
  IF doc = NoDoc THEN Result(404, <<>>)
  ELSE
    LET isCallerSubdirector == Includes(RolesNorm[u.id], "SUBDIRECTOR")
        auto == AutoAceptarSubdireccion(Str(doc.estado), isCallerSubdirector)
        dAuto == pushHist([doc EXCEPT !.estado = RECIBIDO_EN_SUBDIRECCION,
                                      !.ownerRole = "SUBDIRECTOR"],
                          "SUBDIR_ACEPTAR_IMPLICITO", doc.estado, RECIBIDO_EN_SUBDIRECCION)
        d0 == IF auto THEN dAuto ELSE doc
        saved == IF auto THEN << dAuto >> ELSE <<>>
        jefe == IF body.jefeUserId = NULL THEN NoUser ELSE UserFindById(body.jefeUserId)
    IN  IF auto /\ ~SchemaValid(dAuto) THEN Result(500, <<>>)
        ELSE IF d0.estado \notin {RECIBIDO_EN_SUBDIRECCION, EN_SUBDIRECCION_REVISION}
        THEN Result(400, saved)
        ELSE IF body.jefeUserId # NULL /\ ~isValidObjectIdT(body.jefeUserId)
        THEN Result(500, saved)
        ELSE IF jefe = NoUser THEN Result(404, saved)
        ELSE LET deptJefe == deptJefeOf(jefe, body)
                 from == d0.estado
                 d1 == [d0 EXCEPT !.estado = EN_DEPARTAMENTO_POR_RECIBIR,
                                  !.ownerDept = deptJefe,
                                  !.ownerRole = "JEFE",
                                  !.ownerUserId = jefe._id,
                                  !.jefeAsignadoId = jefe._id]
             IN  SaveAndRespond(pushHist(d1, "SUBDIR_ASIGNA_JEFE", from, d1.estado),
                                saved, 200)

jefeAceptar(doc) ==
  IF doc = NoDoc THEN Result(404, <<>>)
  ELSE IF doc.estado # EN_DEPARTAMENTO_POR_RECIBIR THEN Result(400, <<>>)
  ELSE LET from == doc.estado
           d1 == [doc EXCEPT !.estado = RECIBIDO_EN_DEPARTAMENTO, !.ownerRole = "JEFE"]
       IN  SaveAndRespond(pushHist(d1, "JEFE_ACEPTAR", from, d1.estado), <<>>, 200)

\* the lookup of the specialist by _id or by email
FindTecnico(body) ==
  LET raw == trimT(Str(IF Str(body.tecnicoUserId) # "" THEN body.tecnicoUserId
                       ELSE IF Str(body.tecnicoId) # "" THEN body.tecnicoId
                       ELSE ""))
  IN  IF raw = "" THEN NoUser
      ELSE IF isValidObjectIdT(raw) THEN UserFindById(raw)
      ELSE IF IndexIn("@", raw) # 0 THEN UserFindOneByEmail(toLowerCaseT(raw))
      ELSE NoUser

\* a guard that lets any JEFE through
MayAssignTecnico_anyJefe(isSuper, isJefe, myId, ownerUserId) == isSuper \/ isJefe

\* the engine-level guard: a super-role, or the JEFE who owns the case
MayAssignTecnico(isSuper, isJefe, myId, ownerUserId) ==
  isSuper \/ (isJefe /\ myId # "" /\ Str(ownerUserId) = myId)

jefeAsignarTecnico(doc, u, body) ==
  IF doc = NoDoc THEN Result(404, <<>>)
  ELSE
    LET myId == Str(u.id)
        roles == RolesUpper[u.id]
        isSuper == Includes(roles, "ADMIN") \/ Includes(roles, "DESAROLLADOR")
        isJefe == Includes(roles, "JEFE")
        auto == /\ doc.estado = EN_DEPARTAMENTO_POR_RECIBIR
                /\ isJefe
                /\ myId # ""
                /\ Str(doc.ownerUserId) = myId
        dAuto == pushHist([doc EXCEPT !.estado = RECIBIDO_EN_DEPARTAMENTO,
                                      !.ownerRole = "JEFE"],
                          "JEFE_ACEPTAR_IMPLICITO", doc.estado, RECIBIDO_EN_DEPARTAMENTO)
        d0 == IF auto THEN dAuto ELSE doc
        saved == IF auto THEN << dAuto >> ELSE <<>>
        tec == FindTecnico(body)
    IN  IF auto /\ ~SchemaValid(dAuto) THEN Result(500, <<>>)
        ELSE IF ~MayAssignTecnico(isSuper, isJefe, myId, d0.ownerUserId)
        THEN Result(403, saved)
        ELSE IF d0.estado \notin {RECIBIDO_EN_DEPARTAMENTO, RESUELTO_POR_TECNICO}
        THEN Result(400, saved)
        ELSE IF tec = NoUser THEN Result(404, saved)
        ELSE LET from == d0.estado
                 d1 == [d0 EXCEPT !.estado = ASIGNADO_A_TECNICO,
                                  !.ownerRole = "TECNICO",
                                  !.ownerUserId = tec._id,
                                  !.tecnicoAsignadoId = tec._id]
             IN  SaveAndRespond(pushHist(d1, "JEFE_ASIGNA_TECNICO", from, d1.estado),
                                saved, 200)

\* a tecnicoStart that writes a state name the enumeration does not list,
\* with an update that runs no validators
tecnicoStart_unlisted(doc) ==
  IF doc = NoDoc THEN Result(404, <<>>)
  ELSE IF doc.estado # ASIGNADO_A_TECNICO THEN Result(400, <<>>)
  ELSE Result(200, << pushHist([doc EXCEPT !.estado = "EN_PROCESO"],
                               "TEC_START", doc.estado, "EN_PROCESO") >>)

tecnicoStart(doc) ==
  IF doc = NoDoc THEN Result(404, <<>>)
  ELSE IF doc.estado # ASIGNADO_A_TECNICO THEN Result(400, <<>>)
  ELSE LET from == doc.estado
           d1 == [doc EXCEPT !.estado = EN_TRABAJO_TECNICO]
       IN  SaveAndRespond(pushHist(d1, "TEC_START", from, d1.estado), <<>>, 200)

\* a tecnicoResolver that hands the role back and leaves the specialist as
\* the owning user
tecnicoResolver_keepUser(doc) ==
  IF doc = NoDoc THEN Result(404, <<>>)
  ELSE IF doc.estado # EN_TRABAJO_TECNICO THEN Result(400, <<>>)
  ELSE LET from == doc.estado
           d1 == [doc EXCEPT !.estado = RESUELTO_POR_TECNICO,
                             !.ownerRole = "JEFE"]
       IN  SaveAndRespond(pushHist(d1, "TEC_RESUELVE", from, d1.estado), <<>>, 200)

tecnicoResolver(doc) ==
  IF doc = NoDoc THEN Result(404, <<>>)
  ELSE IF doc.estado # EN_TRABAJO_TECNICO THEN Result(400, <<>>)
  ELSE LET from == doc.estado
           d1 == [doc EXCEPT !.estado = RESUELTO_POR_TECNICO,
                             !.ownerRole = "JEFE",
                             !.ownerUserId = doc.jefeAsignadoId]
       IN  SaveAndRespond(pushHist(d1, "TEC_RESUELVE", from, d1.estado), <<>>, 200)

\* a jefeDevolverArriba that always returns the case to Direction
jefeDevolverArriba_direccion(doc) ==
  IF doc = NoDoc THEN Result(404, <<>>)
  ELSE IF doc.estado # RESUELTO_POR_TECNICO THEN Result(400, <<>>)
  ELSE LET from == doc.estado
           d1 == [doc EXCEPT !.estado = EN_DIRECCION_REVISION_FINAL,
                             !.ownerDept = "DIRECCION",
                             !.ownerRole = "DIRECTOR",
                             !.ownerUserId = NULL]
       IN  SaveAndRespond(pushHist(d1, "JEFE_DEVUELVE_ARRIBA", from, d1.estado), <<>>, 200)

jefeDevolverArriba(doc) ==
  IF doc = NoDoc THEN Result(404, <<>>)
  ELSE IF doc.estado # RESUELTO_POR_TECNICO THEN Result(400, <<>>)
  ELSE LET from == doc.estado
           d1 == IF doc.destinoTipo = "SUBDIRECCION" /\ Str(doc.destinoSubdireccion) # ""
                 THEN [doc EXCEPT !.estado = EN_SUBDIRECCION_REVISION,
                                  !.ownerDept = doc.destinoSubdireccion,
                                  !.ownerRole = "SUBDIRECTOR",
                                  !.ownerUserId = NULL]
                 ELSE [doc EXCEPT !.estado = EN_DIRECCION_REVISION_FINAL,
                                  !.ownerDept = "DIRECCION",
                                  !.ownerRole = "DIRECTOR",
                                  !.ownerUserId = NULL]
       IN  SaveAndRespond(pushHist(d1, "JEFE_DEVUELVE_ARRIBA", from, d1.estado), <<>>, 200)

\* the forward to Direction asking for a new routing instead of the final review
subdirDevolverADireccion_reasignar(doc) ==
  IF doc = NoDoc THEN Result(404, <<>>)
  ELSE IF doc.estado # EN_SUBDIRECCION_REVISION THEN Result(400, <<>>)
  ELSE LET from == doc.estado
           d1 == [doc EXCEPT !.estado = EN_DIRECCION_POR_REASIGNAR,
                             !.ownerDept = "DIRECCION",
                             !.ownerRole = "DIRECTOR",
                             !.ownerUserId = NULL]
       IN  SaveAndRespond(pushHist(d1, "SUBDIR->DIR", from, d1.estado), <<>>, 200)

subdirDevolverADireccion(doc) ==
  IF doc = NoDoc THEN Result(404, <<>>)
  ELSE IF doc.estado # EN_SUBDIRECCION_REVISION THEN Result(400, <<>>)
  ELSE LET from == doc.estado
           d1 == [doc EXCEPT !.estado = EN_DIRECCION_REVISION_FINAL,
                             !.ownerDept = "DIRECCION",
                             !.ownerRole = "DIRECTOR",
                             !.ownerUserId = NULL]
       IN  SaveAndRespond(pushHist(d1, "SUBDIR->DIR", from, d1.estado), <<>>, 200)

\* a remit that archives the case itself
direccionRemitirArchivo_archiva(doc) ==
  IF doc = NoDoc THEN Result(404, <<>>)
  ELSE IF doc.estado # EN_DIRECCION_REVISION_FINAL THEN Result(400, <<>>)
  ELSE LET from == doc.estado
           d1 == [doc EXCEPT !.estado = ARCHIVADO,
                             !.ownerDept = "AREA ADMINISTRATIVA",
                             !.ownerRole = "ASISTENTE",
                             !.ownerUserId = NULL]
       IN  SaveAndRespond(pushHist(d1, "DIR->RECEP_ARCH", from, d1.estado), <<>>, 200)

direccionRemitirArchivo(doc) ==
  IF doc = NoDoc THEN Result(404, <<>>)
  ELSE IF doc.estado # EN_DIRECCION_REVISION_FINAL THEN Result(400, <<>>)
  ELSE LET from == doc.estado
           d1 == [doc EXCEPT !.estado = EN_RECEPCION_PARA_ARCHIVO,
                             !.ownerDept = "AREA ADMINISTRATIVA",
                             !.ownerRole = "ASISTENTE",
                             !.ownerUserId = NULL]
       IN  SaveAndRespond(pushHist(d1, "DIR->RECEP_ARCH", from, d1.estado), <<>>, 200)

recepcionArchivar(doc) ==
  IF doc = NoDoc THEN Result(404, <<>>)
  ELSE IF doc.estado # EN_RECEPCION_PARA_ARCHIVO THEN Result(400, <<>>)
  ELSE LET from == doc.estado
           d1 == [doc EXCEPT !.estado = ARCHIVADO, !.ownerRole = "ASISTENTE"]
       IN  SaveAndRespond(pushHist(d1, "RECEP_ARCHIVAR", from, d1.estado), <<>>, 200)

\* the restricted send without its test of the estado
recepcionAAEnviarADireccion_anyState(doc, u) ==
  LET isAsistente == Includes(RolesUpper[u.id], "ASISTENTE")
      isAreaAdmin == trimT(toUpperCaseT(Str(u.departamento))) = "AREA ADMINISTRATIVA"
  IN  IF ~isAsistente \/ ~isAreaAdmin THEN Result(403, <<>>)
      ELSE IF doc = NoDoc THEN Result(404, <<>>)
      ELSE LET from == doc.estado
               d1 == [doc EXCEPT !.estado = EN_DIRECCION_POR_INSTRUIR,
                                 !.ownerDept = "DIRECCION",
                                 !.ownerRole = "DIRECTOR",
                                 !.ownerUserId = NULL]
           IN  SaveAndRespond(
                 pushHist(d1, "AA_ASISTENTE_ENVIA_DIRECCION", from, d1.estado), <<>>, 200)

recepcionAAEnviarADireccion(doc, u) ==
  LET isAsistente == Includes(RolesUpper[u.id], "ASISTENTE")
      isAreaAdmin == trimT(toUpperCaseT(Str(u.departamento))) = "AREA ADMINISTRATIVA"
  IN  IF ~isAsistente \/ ~isAreaAdmin THEN Result(403, <<>>)
      ELSE IF doc = NoDoc THEN Result(404, <<>>)
      ELSE IF doc.estado # EN_RECEPCION THEN Result(400, <<>>)
      ELSE LET from == doc.estado
               d1 == [doc EXCEPT !.estado = EN_DIRECCION_POR_INSTRUIR,
                                 !.ownerDept = "DIRECCION",
                                 !.ownerRole = "DIRECTOR",
                                 !.ownerUserId = NULL]
           IN  SaveAndRespond(
                 pushHist(d1, "AA_ASISTENTE_ENVIA_DIRECCION", from, d1.estado), <<>>, 200)

(***************************************************************************)
(* listCorrespondencia: the filter built from the query and the caller,    *)
(* and the cases it selects.  A filter holds a value per path, UNDEFINED   *)
(* for a path without condition; estado holds the list of its $in, empty   *)
(* for no condition.  The free-text, creator and date conditions select on *)
(* paths the model does not carry and only narrow the result; paging       *)
(* returns a part of it.                                                   *)
(***************************************************************************)
\* "Filtros directos si vienen en query"
QueryFilter(ownerDept, ownerRole, ownerUserId) ==
  [ownerDept |-> IF ownerDept # "" THEN ownerDept ELSE UNDEFINED,
   ownerRole |-> IF ownerRole # "" THEN ownerRole ELSE UNDEFINED,
   ownerUserId |-> IF ownerUserId # "" /\ isValidObjectIdT(ownerUserId)
                   THEN ownerUserId ELSE UNDEFINED,
   estado |-> <<>>]

\* "Restricciones por rol"; implicit is !anyState && !userSetEstado
RoleScoped(filter, roles, myDept, myId, ownerDept, ownerRole, implicit) ==
  IF Includes(roles, "ADMIN") \/ Includes(roles, "DESAROLLADOR") THEN filter
  ELSE IF Includes(roles, "ASISTENTE") THEN filter
  ELSE IF Includes(roles, "DIRECTOR")
  THEN [filter EXCEPT !.ownerDept = IF ownerDept # "" THEN ownerDept ELSE "DIRECCION"]
  ELSE IF Includes(roles, "JEFE")
  THEN [filter EXCEPT
          !.ownerDept = IF ownerDept # "" THEN ownerDept ELSE myDept,
          !.ownerRole = IF ownerRole # "" THEN ownerRole ELSE "JEFE",
          !.estado = IF implicit
                     THEN << RECIBIDO_EN_DEPARTAMENTO, RESUELTO_POR_TECNICO >>
                     ELSE @]
  ELSE IF Includes(roles, "TECNICO") \/ Includes(roles, "TENICO")
  THEN [filter EXCEPT
          !.ownerRole = IF ownerRole # "" THEN ownerRole ELSE "TECNICO",
          !.ownerUserId = myId,
          !.estado = IF implicit
                     THEN << ASIGNADO_A_TECNICO, EN_TRABAJO_TECNICO >>
                     ELSE @]
  ELSE filter

\* "if (userSetEstado) filter.estado = ...", with the list
\* estadoRaw.split(',').map(s => s.trim()).filter(Boolean)
EstadoFiltered(filter, estadoRaw) ==
  IF Len(estadoRaw) > 0
  THEN [filter EXCEPT
          !.estado = SelectSeq(MapSeq(trimT, SplitTable[estadoRaw]), LAMBDA e : e # "")]
  ELSE filter

\* the filter of a request, from the trimmed parameters
FilterOf(u, ownerDept, ownerRole, ownerUserId, estadoRaw, anyState) ==
  EstadoFiltered(
    RoleScoped(QueryFilter(ownerDept, ownerRole, ownerUserId), RolesUpper[u.id],
               Str(u.departamento), u.id, ownerDept, ownerRole,
               ~anyState /\ Len(estadoRaw) = 0),
    estadoRaw)

listFilter(u, query) ==
  FilterOf(u, trimT(Str(query.ownerDept)), trimT(Str(query.ownerRole)),
           trimT(Str(query.ownerUserId)), trimT(Str(query.estado)),
           toLowerCaseT(Str(query.anyState)) \in {"1", "true", "yes", "all"})

\* Correspondencia.find(filter) on the collection
Matches(doc, filter) ==
  /\ filter.ownerDept = UNDEFINED \/ doc.ownerDept = filter.ownerDept
  /\ filter.ownerRole = UNDEFINED \/ doc.ownerRole = filter.ownerRole
  /\ filter.ownerUserId = UNDEFINED \/ doc.ownerUserId = filter.ownerUserId
  /\ filter.estado = <<>> \/ Includes(filter.estado, doc.estado)

\* the items of the response
listCorrespondencia(doc, u, query) ==
  IF doc # NoDoc /\ Matches(doc, listFilter(u, query)) THEN << doc >> ELSE <<>>

(***************************************************************************)
(* Routes (correspondencia.routes.js): the guard in front of each handler  *)
(***************************************************************************)
Ops ==
  { "createCorrespondencia", "recepcionEnviarADireccion", "direccionInstruirYEnviar",
    "subdireccionAceptar", "subdireccionAsignarJefe", "jefeAceptar",
    "jefeAsignarTecnico", "tecnicoStart", "tecnicoResolver", "jefeDevolverArriba",
    "subdirDevolverADireccion", "direccionRemitirArchivo", "recepcionArchivar",
    "recepcionAAEnviarADireccion" }

\* the routes mounted behind validateJWT alone
UnguardedOps ==
  { "jefeAsignarTecnico", "tecnicoStart", "tecnicoResolver", "jefeDevolverArriba" }

\* the allow-lists handed to requireDeptAndRole on the route of op
RouteAllowLists(op) ==
  CASE op \in {"createCorrespondencia", "recepcionEnviarADireccion", "recepcionArchivar"}
         -> << RECEPCION_DEPTS, RECEPCION_ROLES >>
    [] op \in {"direccionInstruirYEnviar", "direccionRemitirArchivo"}
         -> << DIR_DEPTS, DIR_ROLES >>
    [] op \in {"subdireccionAceptar", "subdireccionAsignarJefe", "subdirDevolverADireccion"}
         -> << SUBDIR_DEPTS, SUBDIR_ROLES >>
    [] op = "jefeAceptar" -> << <<>>, JEFE_ROLES >>
    [] op = "recepcionAAEnviarADireccion"
         -> << << "AREA ADMINISTRATIVA" >>, << "ASISTENTE" >> >>
    [] OTHER -> << <<>>, <<>> >>

\* asignar-jefe mounted behind validateJWT alone, as asignar-tecnico is
RouteGuardOf_asignarJefeOpen(op, u) ==
  IF op \in UnguardedOps \cup {"subdireccionAsignarJefe"} THEN 0
  ELSE requireDeptAndRole(RouteAllowLists(op)[1], RouteAllowLists(op)[2], u)

\* the requireDeptAndRole(...) middleware mounted on the route of op, applied
\* to req.user = u; 0 when the route has none or it calls next()
RouteGuardOf(op, u) ==
  IF op \in UnguardedOps THEN 0
  ELSE requireDeptAndRole(RouteAllowLists(op)[1], RouteAllowLists(op)[2], u)

\* the guards, evaluated once per route and user
RouteGuard == [op \in Ops |-> [id \in UserIds |-> RouteGuardOf(op, ReqUser(id))]]

Principal == [id \in UserIds |-> ReqUser(id)]

\* the handler behind the route of op
Handler(op, doc, u, body) ==
  CASE op = "createCorrespondencia" -> createCorrespondencia(body)
    [] op = "recepcionEnviarADireccion" -> recepcionEnviarADireccion(doc)
    [] op = "direccionInstruirYEnviar" -> direccionInstruirYEnviar(doc, body)
    [] op = "subdireccionAceptar" -> subdireccionAceptar(doc)
    [] op = "subdireccionAsignarJefe" -> subdireccionAsignarJefe(doc, u, body)
    [] op = "jefeAceptar" -> jefeAceptar(doc)
    [] op = "jefeAsignarTecnico" -> jefeAsignarTecnico(doc, u, body)
    [] op = "tecnicoStart" -> tecnicoStart(doc)
    [] op = "tecnicoResolver" -> tecnicoResolver(doc)
    [] op = "jefeDevolverArriba" -> jefeDevolverArriba(doc)
    [] op = "subdirDevolverADireccion" -> subdirDevolverADireccion(doc)
    [] op = "direccionRemitirArchivo" -> direccionRemitirArchivo(doc)
    [] op = "recepcionArchivar" -> recepcionArchivar(doc)
    [] op = "recepcionAAEnviarADireccion" -> recepcionAAEnviarADireccion(doc, u)

\* the actions of the logActivity calls the handler of op makes on the way to
\* a response with this status: four handlers call it, after their save
logActivityCalls(op, status) ==
  IF status \notin {200, 201} THEN <<>>
  ELSE CASE op = "createCorrespondencia" -> << "CORR_CREATE" >>
         [] op = "recepcionEnviarADireccion" -> << "CORR_SENT_TO_DIR" >>
         [] op = "direccionInstruirYEnviar" -> << "CORR_DIR_ROUTE" >>
         [] op = "recepcionAAEnviarADireccion" -> << "CORR_AA_SENT_TO_DIR" >>
         [] OTHER -> <<>>

\* logActivity (movement.controller.js): the record is built and
\* Movement.create awaited inside try; catch writes to the console, so the
\* promise resolves whether the collection took the record or not
logActivity_rethrow(action, sinkUp) ==
  [settled |-> IF sinkUp THEN "resolved" ELSE "rejected",
   created |-> IF sinkUp THEN << action >> ELSE <<>>]

logActivity(action, sinkUp) ==
  [settled |-> "resolved", created |-> IF sinkUp THEN << action >> ELSE <<>>]

\* a middleware that answers with status guard, or calls next() when it is 0
Guarded(guard, handled) == IF guard # 0 THEN Result(guard, <<>>) ELSE handled

\* one request through its route: the guard, then the handler on the
\* document findById returned
Serve(op, doc, callerId, body) ==
  Guarded(RouteGuard[op][callerId], Handler(op, doc, Principal[callerId], body))

(***************************************************************************)
(* Persistence: what one doc.save() writes.  Mongoose sends the paths      *)
(* whose value differs from the one loaded ($set) and the elements pushed  *)
(* on historial ($push); the schema has versionKey: false, so the update   *)
(* is not conditional on the stored document being the one that was read.  *)
(***************************************************************************)
ScalarPaths ==
  { "estado", "ownerDept", "ownerRole", "ownerUserId", "destinoTipo",
    "destinoSubdireccion", "destinoDepartamento", "instruccionesDireccion",
    "jefeAsignadoId", "tecnicoAsignadoId" }

\* stored is the document in the collection, loaded the in-memory document
\* as of its last load or save, mem the in-memory document being saved
ApplySave(stored, loaded, mem) ==
  IF loaded = NoDoc THEN mem
  ELSE [p \in ScalarPaths \cup {"historial"} |->
          IF p = "historial"
          THEN stored.historial
                 \o SubSeq(mem.historial, Len(loaded.historial) + 1, Len(mem.historial))
          ELSE IF mem[p] # loaded[p] THEN mem[p] ELSE stored[p]]

\* the collection after the saves of one request, none interleaved
RECURSIVE Persist(_, _, _)
Persist(stored, loaded, saves) ==
  IF Len(saves) = 0 THEN stored
  ELSE Persist(ApplySave(stored, loaded, Head(saves)), Head(saves), Tail(saves))

(***************************************************************************)
(* Requests                                                                *)
(***************************************************************************)
EmptyBody ==
  [onedriveUrl |-> NoUrl, roleDestino |-> NULL, subdireccion |-> NULL,
   departamento |-> NULL, instrucciones |-> NULL, jefeUserId |-> NULL,
   tecnicoUserId |-> NULL, tecnicoId |-> NULL]

BodiesOf(op) ==
  CASE op = "createCorrespondencia" ->
         { EmptyBody } \cup { [EmptyBody EXCEPT !.onedriveUrl = url] : url \in UrlInputs }
    [] op = "direccionInstruirYEnviar" ->
         { [EmptyBody EXCEPT !.roleDestino = "SUBDIRECTOR", !.subdireccion = sd,
                             !.instrucciones = ins] :
             sd \in SubdirInputs, ins \in InstruccionesInputs }
         \cup { [EmptyBody EXCEPT !.roleDestino = "JEFE", !.departamento = dp,
                                  !.instrucciones = ins] :
                  dp \in DeptInputs, ins \in InstruccionesInputs }
         \cup { [EmptyBody EXCEPT !.roleDestino = "TECNICO", !.departamento = "PRIMARIA"] }
    [] op = "subdireccionAsignarJefe" ->
         { [EmptyBody EXCEPT !.jefeUserId = j, !.departamento = BodyDeptInput] :
             j \in JefeInputs }
    [] op = "jefeAsignarTecnico" ->
         { [EmptyBody EXCEPT !.tecnicoUserId = TecnicoIdInput],
           [EmptyBody EXCEPT !.tecnicoId = TecnicoEmailInput],
           [EmptyBody EXCEPT !.tecnicoUserId = TecnicoUnknownInput] }
    [] OTHER -> { EmptyBody }

NoReq == [op |-> "none", caller |-> NULL, body |-> EmptyBody, query |-> NoQuery]

\* the number of history records of a send to Direction
NumSends(doc) ==
  IF doc = NoDoc THEN 0
  ELSE Cardinality({ i \in 1..Len(doc.historial) :
                       doc.historial[i].action \in
                         {"RECEPCION->DIRECCION", "AA_ASISTENTE_ENVIA_DIRECCION"} })

HistLen(doc) == IF doc = NoDoc THEN 0 ELSE Len(doc.historial)

(***************************************************************************)
(* State                                                                   *)
(***************************************************************************)
VARIABLES
  caso,   \* the case document in the collection, NoDoc before it is created
  req,    \* the last request served
  resp,   \* the status of its response
  pre,    \* the case document when that request arrived
  items,  \* the cases a list request returned
  movements,  \* the audit records the handler of that request emitted
  logged,     \* those of them Movement.create stored
  naming,     \* a name handed to aliasDept or canonicalFromList (SpecNames)
  slots   \* the requests in flight (SpecConc)

vars == << caso, req, resp, pre, items, movements, logged, naming, slots >>

Idle == [phase |-> "idle"]

NoName == [op |-> "none", value |-> NULL, out |-> NULL]

Init ==
  /\ caso = NoDoc
  /\ req = NoReq
  /\ resp = 0
  /\ pre = NoDoc
  /\ items = <<>>
  /\ movements = <<>>
  /\ logged = <<>>
  /\ naming = NoName
  /\ slots = [i \in 1..2 |-> Idle]

\* after its saves the handler awaits its logActivity call, if it makes one,
\* and answers with status; a rejected await would land in its catch, which
\* answers 500.  Movement.create stores the record (sinkUp) or fails; a
\* handler without audit call does not depend on it.
Audited(status, sinkUp) ==
  /\ logged' = IF movements' = <<>> THEN <<>>
                ELSE logActivity(movements'[1], sinkUp).created
  /\ resp' = IF movements' # <<>> /\ logActivity(movements'[1], sinkUp).settled = "rejected"
              THEN 500
              ELSE status

\* one request served without any other request in between: the handler
\* runs to its response
\* the response of a request and the collection its saves leave behind
Answer(op, callerId, body, status, after) ==
  /\ op = "createCorrespondencia" => caso = NoDoc
  /\ HistLen(after) <= MaxHist
  /\ NumSends(after) <= MaxSends
  /\ caso' = after
  /\ req' = [op |-> op, caller |-> callerId, body |-> body, query |-> NoQuery]
  /\ pre' = caso
  /\ movements' = logActivityCalls(op, status)
  /\ \E sinkUp \in (IF movements' = <<>> THEN {TRUE} ELSE BOOLEAN) :
       Audited(status, sinkUp)
  /\ UNCHANGED << items, naming, slots >>

\* r is the outcome of the route: its saves are applied in order
Served(op, callerId, body, r) ==
  Answer(op, callerId, body, r.status, Persist(caso, caso, r.saves))

Request(op, callerId, body) == Served(op, callerId, body, Serve(op, caso, callerId, body))

CreateCorrespondencia ==
  /\ req = NoReq
  /\ \E c \in UserIds : \E b \in BodiesOf("createCorrespondencia") :
       Request("createCorrespondencia", c, b)
RecepcionEnviarADireccion ==
  /\ req = NoReq
  /\ \E c \in UserIds : Request("recepcionEnviarADireccion", c, EmptyBody)
DireccionInstruirYEnviar ==
  /\ req = NoReq
  /\ \E c \in UserIds : \E b \in BodiesOf("direccionInstruirYEnviar") :
       Request("direccionInstruirYEnviar", c, b)
SubdireccionAceptar ==
  /\ req = NoReq
  /\ \E c \in UserIds : Request("subdireccionAceptar", c, EmptyBody)
SubdireccionAsignarJefe ==
  /\ req = NoReq
  /\ \E c \in UserIds : \E b \in BodiesOf("subdireccionAsignarJefe") :
       Request("subdireccionAsignarJefe", c, b)
JefeAceptar ==
  /\ req = NoReq
  /\ \E c \in UserIds : Request("jefeAceptar", c, EmptyBody)
JefeAsignarTecnico ==
  /\ req = NoReq
  /\ \E c \in UserIds : \E b \in BodiesOf("jefeAsignarTecnico") :
       Request("jefeAsignarTecnico", c, b)
TecnicoStart ==
  /\ req = NoReq
  /\ \E c \in UserIds : Request("tecnicoStart", c, EmptyBody)
TecnicoResolver ==
  /\ req = NoReq
  /\ \E c \in UserIds : Request("tecnicoResolver", c, EmptyBody)
JefeDevolverArriba ==
  /\ req = NoReq
  /\ \E c \in UserIds : Request("jefeDevolverArriba", c, EmptyBody)
SubdirDevolverADireccion ==
  /\ req = NoReq
  /\ \E c \in UserIds : Request("subdirDevolverADireccion", c, EmptyBody)
DireccionRemitirArchivo ==
  /\ req = NoReq
  /\ \E c \in UserIds : Request("direccionRemitirArchivo", c, EmptyBody)
RecepcionArchivar ==
  /\ req = NoReq
  /\ \E c \in UserIds : Request("recepcionArchivar", c, EmptyBody)
RecepcionAAEnviarADireccion ==
  /\ req = NoReq
  /\ \E c \in UserIds : Request("recepcionAAEnviarADireccion", c, EmptyBody)

\* GET / and GET /inbox/:role, behind validateJWT alone: the response
\* carries the cases the filter selects and nothing is written
ListCorrespondencia ==
  /\ req = NoReq
  /\ \E c \in UserIds : \E q \in QueryInputs :
       /\ req' = [op |-> "listCorrespondencia", caller |-> c, body |-> EmptyBody,
                  query |-> q]
       /\ resp' = 200
       /\ pre' = caso
       /\ items' = listCorrespondencia(caso, Principal[c], q)
       /\ UNCHANGED << caso, movements, logged, naming, slots >>

\* the response has been delivered and the request is over
Complete ==
  /\ req # NoReq
  /\ req' = NoReq
  /\ resp' = 0
  /\ pre' = NoDoc
  /\ items' = <<>>
  /\ movements' = <<>>
  /\ logged' = <<>>
  /\ UNCHANGED << caso, naming, slots >>

Next ==
  \/ CreateCorrespondencia
  \/ RecepcionEnviarADireccion
  \/ DireccionInstruirYEnviar
  \/ SubdireccionAceptar
  \/ SubdireccionAsignarJefe
  \/ JefeAceptar
  \/ JefeAsignarTecnico
  \/ TecnicoStart
  \/ TecnicoResolver
  \/ JefeDevolverArriba
  \/ SubdirDevolverADireccion
  \/ DireccionRemitirArchivo
  \/ RecepcionArchivar
  \/ RecepcionAAEnviarADireccion
  \/ Complete

Spec == Init /\ [][Next]_vars

\* the same requests and the list requests among them; a list request
\* writes nothing, so the cases and the answers of Spec are those of SpecList
NextList ==
  \/ Next
  \/ ListCorrespondencia

SpecList == Init /\ [][NextList]_vars

\* the requests of Spec that come from users without a super-role
NoSuper == req'.caller # idX

NextNoSuper ==
  \/ CreateCorrespondencia /\ NoSuper
  \/ RecepcionEnviarADireccion /\ NoSuper
  \/ DireccionInstruirYEnviar /\ NoSuper
  \/ SubdireccionAceptar /\ NoSuper
  \/ SubdireccionAsignarJefe /\ NoSuper
  \/ JefeAceptar /\ NoSuper
  \/ JefeAsignarTecnico /\ NoSuper
  \/ TecnicoStart /\ NoSuper
  \/ TecnicoResolver /\ NoSuper
  \/ JefeDevolverArriba /\ NoSuper
  \/ SubdirDevolverADireccion /\ NoSuper
  \/ DireccionRemitirArchivo /\ NoSuper
  \/ RecepcionArchivar /\ NoSuper
  \/ RecepcionAAEnviarADireccion /\ NoSuper
  \/ Complete

SpecNoSuper == Init /\ [][NextNoSuper]_vars

(***************************************************************************)
(* The canonicalization functions on their own: a name is drawn and one    *)
(* of the two functions is applied to it, normStr computed on the name     *)
(* itself instead of being looked up                                       *)
(***************************************************************************)
InitNames ==
  /\ caso = NoDoc
  /\ req = NoReq
  /\ resp = 0
  /\ pre = NoDoc
  /\ items = <<>>
  /\ movements = <<>>
  /\ logged = <<>>
  /\ naming \in { [op |-> "input", value |-> v, out |-> NULL] : v \in NameInputs }
  /\ slots = [i \in 1..2 |-> Idle]

AliasDept ==
  /\ naming.op = "input"
  /\ naming' = [op |-> "aliasDept", value |-> naming.value,
                out |-> aliasOf(normStr(naming.value))]
  /\ UNCHANGED << caso, req, resp, pre, items, movements, logged, slots >>

CanonicalFromList ==
  /\ naming.op = "input"
  /\ naming' = [op |-> "canonicalFromList", value |-> naming.value,
                out |-> canonicalFound(normStr(naming.value), naming.value, SUBDIRS)]
  /\ UNCHANGED << caso, req, resp, pre, items, movements, logged, slots >>

NextNames ==
  \/ AliasDept
  \/ CanonicalFromList

SpecNames == InitNames /\ [][NextNames]_vars

(***************************************************************************)
(* Two requests in flight.  A handler awaits findById, then each save();   *)
(* between two awaits of one request the other request may run.  The       *)
(* requests followed are those that write: a request that answers without  *)
(* a save leaves the collection as it found it.                            *)
(***************************************************************************)
Other(i) == 3 - i

InFlight(i) == slots[i].phase \in {"loaded", "done"}

\* await Correspondencia.findById(id) of a request on slot i: the handler
\* holds the document it loaded and will make the saves it decides on it
\* r is what the handler decides on the document it loaded
Loaded(i, op, callerId, body, r) ==
  /\ r.saves # <<>>
  /\ op = "createCorrespondencia" => caso = NoDoc /\ slots[Other(i)] = Idle
  /\ HistLen(caso) < MaxHistConc
  /\ NumSends(Persist(caso, caso, r.saves)) <= MaxSends
  /\ slots' = [slots EXCEPT ![i] =
                 [phase |-> "loaded",
                  req |-> [op |-> op, caller |-> callerId, body |-> body],
                  base |-> caso,
                  loaded |-> caso,
                  todo |-> r.saves,
                  status |-> r.status]]
  /\ UNCHANGED << caso, req, resp, pre, items, movements, logged, naming >>

Receive(i, op, callerId, body) ==
  Loaded(i, op, callerId, body, Serve(op, caso, callerId, body))

ReceiveAny(i) ==
  /\ slots[i] = Idle
  /\ \E op \in Ops : \E c \in UserIds : \E b \in BodiesOf(op) : Receive(i, op, c, b)

\* await doc.save() (or create()) of the request on slot i
Save(i) ==
  /\ slots[i].phase = "loaded"
  /\ slots[i].todo # <<>>
  /\ caso' = ApplySave(caso, slots[i].loaded, Head(slots[i].todo))
  /\ slots' = [slots EXCEPT ![i].loaded = Head(slots[i].todo),
                            ![i].todo = Tail(slots[i].todo)]
  /\ UNCHANGED << req, resp, pre, items, movements, logged, naming >>

\* res.status(...).json(...) of the request on slot i
Respond(i) ==
  /\ slots[i].phase = "loaded"
  /\ slots[i].todo = <<>>
  /\ slots' = [slots EXCEPT ![i].phase = "done"]
  /\ UNCHANGED << caso, req, resp, pre, items, movements, logged, naming >>

\* the answered requests are over
Release ==
  /\ \E i \in 1..2 : slots[i].phase = "done"
  /\ \A i \in 1..2 : slots[i].phase \in {"idle", "done"}
  /\ slots' = [i \in 1..2 |-> Idle]
  /\ UNCHANGED << caso, req, resp, pre, items, movements, logged, naming >>

NextConc ==
  \/ \E i \in 1..2 : ReceiveAny(i)
  \/ \E i \in 1..2 : Save(i)
  \/ \E i \in 1..2 : Respond(i)
  \/ Release

SpecConc == Init /\ [][NextConc]_vars

(***************************************************************************)
(* Vocabulary of the properties                                            *)
(***************************************************************************)
TransitionOps == Ops \ {"createCorrespondencia"}

\* the "Allowed from" column of the transition catalogue; the two
\* assignments also start from the pending-receipt state they auto-accept
AllowedFrom ==
  [op \in TransitionOps |->
     CASE op \in {"recepcionEnviarADireccion", "recepcionAAEnviarADireccion"}
            -> {EN_RECEPCION}
       [] op = "direccionInstruirYEnviar"
            -> {EN_DIRECCION_POR_INSTRUIR, EN_DIRECCION_POR_REASIGNAR}
       [] op = "subdireccionAceptar" -> {EN_SUBDIRECCION_POR_RECIBIR}
       [] op = "subdireccionAsignarJefe"
            -> {EN_SUBDIRECCION_POR_RECIBIR, RECIBIDO_EN_SUBDIRECCION,
                EN_SUBDIRECCION_REVISION}
       [] op = "jefeAceptar" -> {EN_DEPARTAMENTO_POR_RECIBIR}
       [] op = "jefeAsignarTecnico"
            -> {EN_DEPARTAMENTO_POR_RECIBIR, RECIBIDO_EN_DEPARTAMENTO,
                RESUELTO_POR_TECNICO}
       [] op = "tecnicoStart" -> {ASIGNADO_A_TECNICO}
       [] op = "tecnicoResolver" -> {EN_TRABAJO_TECNICO}
       [] op = "jefeDevolverArriba" -> {RESUELTO_POR_TECNICO}
       [] op = "subdirDevolverADireccion" -> {EN_SUBDIRECCION_REVISION}
       [] op = "direccionRemitirArchivo" -> {EN_DIRECCION_REVISION_FINAL}
       [] op = "recepcionArchivar" -> {EN_RECEPCION_PARA_ARCHIVO}]

\* a transition request on an existing case has just been answered
Answered(op) == req.op = op /\ pre # NoDoc

HoldsRole(id, role) == \E u \in UserDocs : u._id = id /\ role \in SeqRange(u.roles)

IsSuper(id) == HoldsRole(id, "ADMIN") \/ HoldsRole(id, "DESAROLLADOR")

OwnershipOf(doc) == << doc.ownerDept, doc.ownerRole, doc.ownerUserId >>

\* the records a request appended to the history
Appended == SubSeq(caso.historial, Len(pre.historial) + 1, Len(caso.historial))

KeepsHistory ==
  /\ Len(caso.historial) >= Len(pre.historial)
  /\ SubSeq(caso.historial, 1, Len(pre.historial)) = pre.historial

(***************************************************************************)
(* C1..C10                                                                 *)
(***************************************************************************)

WithImplicitAccept ==
  \/ req.op = "subdireccionAsignarJefe" /\ pre.estado = EN_SUBDIRECCION_POR_RECIBIR
  \/ req.op = "jefeAsignarTecnico" /\ pre.estado = EN_DEPARTAMENTO_POR_RECIBIR

ImplicitAcceptOfSubdireccion ==
  /\ Answered("subdireccionAsignarJefe")
  /\ pre.estado = EN_SUBDIRECCION_POR_RECIBIR
  /\ HoldsRole(req.caller, "SUBDIRECTOR")
  /\ req.body.jefeUserId \in UserIds

ImplicitAcceptOfJefatura ==
  /\ Answered("jefeAsignarTecnico")
  /\ pre.estado = EN_DEPARTAMENTO_POR_RECIBIR
  /\ HoldsRole(req.caller, "JEFE")
  /\ pre.ownerUserId = req.caller
  /\ \/ req.body.tecnicoUserId \in UserIds
     \/ req.body.tecnicoId = TecnicoEmailInput

NotOwnerJefeNorSuper ==
  /\ ~IsSuper(req.caller)
  /\ ~(HoldsRole(req.caller, "JEFE") /\ pre.ownerUserId = req.caller)

InSubdirAllowLists(id) ==
  \E u \in UserDocs :
    /\ u._id = id
    /\ u.departamento \in SeqRange(SUBDIR_DEPTS)
    /\ SeqRange(u.roles) \cap SeqRange(SUBDIR_ROLES) # {}

TecnicoMeant(body) ==
  IF body.tecnicoUserId \in UserIds THEN body.tecnicoUserId
  ELSE IF body.tecnicoId = TecnicoEmailInput THEN idT
  ELSE NULL

Unset(v) == v \in {NULL, UNDEFINED}

FileUrl ==
  [kind |-> "url", hostname |-> "digecur.sharepoint.com", pathname |-> "/:w:/g/doc",
   searchParams |-> {}]

\* a create request that got past the guard of its route
Created == req.op = "createCorrespondencia" /\ RouteGuard[req.op][req.caller] = 0

CanonicalSubdireccion(sd) ==
  CASE sd = "SUBDIRECCION EVALUACION CURRICULAR" -> SUBDIRS[1]
    [] sd = "Subdirección Diseño y Desarollo Curricular" -> SUBDIRS[2]
    [] OTHER -> NULL

\* the department of the routing tables a department input matches once
\* normalized and aliased (DESARROLLO stands for DESAROLLO), NULL when none
CanonicalDepartamento(dp) ==
  CASE dp = "PRIMARIA" -> "PRIMARIA"
    [] dp = "Desarrollo" -> "DESAROLLO"
    [] OTHER -> NULL

\* Direction's routing request on a case at Direction, past the route guard
DireccionRouted ==
  /\ Answered("direccionInstruirYEnviar")
  /\ RouteGuard[req.op][req.caller] = 0
  /\ pre.estado \in {EN_DIRECCION_POR_INSTRUIR, EN_DIRECCION_POR_REASIGNAR}

ToSubdireccion ==
  req.body.roleDestino = "SUBDIRECTOR" /\ CanonicalSubdireccion(req.body.subdireccion) # NULL

ToDepartamento ==
  req.body.roleDestino = "JEFE" /\ CanonicalDepartamento(req.body.departamento) # NULL

C16_JefeAcepta ==
  (/\ Answered("jefeAceptar")
   /\ pre.estado = EN_DEPARTAMENTO_POR_RECIBIR
   /\ HoldsRole(req.caller, "JEFE"))
    => /\ resp = 200
       /\ caso.estado = RECIBIDO_EN_DEPARTAMENTO
       /\ caso.ownerRole = "JEFE"
       /\ KeepsHistory
       /\ Len(Appended) = 1

\* the destinations Direction's routing can store: a subdirection, a
\* department, or none yet
StoredDestinations ==
  { << "SUBDIRECCION", SUBDIRS[i], NULL >> : i \in 1..Len(SUBDIRS) }
    \cup { << "DEPARTAMENTO", NULL, d >> : d \in {"PRIMARIA", "AREA FINANCIERA"} }
    \cup { << NULL, UNDEFINED, UNDEFINED >> }

WithDestination(doc, d) ==
  [doc EXCEPT !.destinoTipo = d[1], !.destinoSubdireccion = d[2],
              !.destinoDepartamento = d[3]]

\* where 'devolver-arriba' must leave a case that carries destination d
EscalatedAs(doc, d) ==
  IF d[1] = "SUBDIRECCION"
  THEN /\ doc.estado = EN_SUBDIRECCION_REVISION
       /\ OwnershipOf(doc) = << d[2], "SUBDIRECTOR", NULL >>
  ELSE /\ doc.estado = EN_DIRECCION_REVISION_FINAL
       /\ OwnershipOf(doc) = << "DIRECCION", "DIRECTOR", NULL >>

DestinationOf(doc) ==
  << doc.destinoTipo, doc.destinoSubdireccion, doc.destinoDepartamento >>

TecnicoStates == {ASIGNADO_A_TECNICO, EN_TRABAJO_TECNICO}

\* at a successful 'assign specialist' the owning user about to be replaced
\* is the supervisor recorded in jefeAsignadoId
C18_AtAssign ==
  (Answered("jefeAsignarTecnico") /\ resp = 200)
    => /\ pre.ownerUserId \in UserIds
       /\ caso.jefeAsignadoId = pre.ownerUserId

\* while the specialist holds the case the recorded supervisor and the
\* department stay as they are
C18_WhileTecnico ==
  (/\ caso # NoDoc
   /\ caso.estado \in TecnicoStates
   /\ caso'.estado \in TecnicoStates \cup {RESUELTO_POR_TECNICO})
    => caso'.jefeAsignadoId = caso.jefeAsignadoId /\ caso'.ownerDept = caso.ownerDept

\* a successful 'resolve' hands the case to the recorded supervisor
C18_AtResolve ==
  (Answered("tecnicoResolver") /\ pre.estado = EN_TRABAJO_TECNICO)
    => /\ resp = 200
       /\ caso.estado = RESUELTO_POR_TECNICO
       /\ caso.ownerRole = "JEFE"
       /\ caso.ownerDept = pre.ownerDept
       /\ caso.ownerUserId = pre.jefeAsignadoId
       /\ caso.ownerUserId \in UserIds

Listed == req.op = "listCorrespondencia" /\ req.query.estado = NULL

DepartamentoOf(id) == (CHOOSE u \in UserDocs : u._id = id).departamento

RecordsWritten ==
  IF pre = NoDoc THEN HistLen(caso) ELSE Len(caso.historial) - Len(pre.historial)

AuditCalled == req.op \in Ops /\ movements # <<>>

UnproducedStates == {EN_RECEPCION_CORRECCION, EN_DIRECCION_POR_REASIGNAR}

\* the states the history of a case says it entered
Entered(doc) == { doc.historial[i].toState : i \in 1..Len(doc.historial) }

C23_Canonicalization ==
  /\ naming.op = "aliasDept"
       => /\ aliasOf(normStr(naming.out)) = naming.out
          /\ naming.value \in DeptVariants => naming.out = "DESAROLLO"
  /\ naming.op = "canonicalFromList"
       => /\ \A i \in 1..Len(SUBDIRS) :
               normStr(SUBDIRS[i]) = normStr(naming.value) => naming.out = SUBDIRS[i]
          /\ naming.value \in SeqRange(SUBDIRS) => naming.out = naming.value

\* a lower-case, accented spelling with two R has been aliased
C23_Witness ==
  /\ naming.op = "aliasDept"
  /\ naming.value = "desarrolló"
  /\ naming.out = "DESAROLLO"


\* the caller of the last request is ASISTENTE of AREA ADMINISTRATIVA
AsistenteAA ==
  HoldsRole(req.caller, "ASISTENTE") /\ DepartamentoOf(req.caller) = "AREA ADMINISTRATIVA"

Kept(paths) == \A p \in paths : caso[p] = pre[p]

AcceptStartArchive ==
  { "subdireccionAceptar", "jefeAceptar", "tecnicoStart", "recepcionArchivar" }

RouteRequests ==
  << << "createCorrespondencia", idA, [EmptyBody EXCEPT !.onedriveUrl = FileUrl] >>,
     << "recepcionEnviarADireccion", idA, EmptyBody >>,
     << "direccionInstruirYEnviar", idD,
        [EmptyBody EXCEPT !.roleDestino = "SUBDIRECTOR", !.subdireccion = SUBDIRS[1],
                          !.instrucciones = " Atender "] >>,
     << "subdireccionAceptar", idS, EmptyBody >>,
     << "subdireccionAsignarJefe", idS,
        [EmptyBody EXCEPT !.jefeUserId = idJ, !.departamento = BodyDeptInput] >>,
     << "jefeAsignarTecnico", idJ, [EmptyBody EXCEPT !.tecnicoUserId = TecnicoIdInput] >>,
     << "tecnicoStart", idT, EmptyBody >>,
     << "tecnicoResolver", idT, EmptyBody >>,
     << "jefeDevolverArriba", idJ, EmptyBody >>,
     << "subdirDevolverADireccion", idS, EmptyBody >>,
     << "direccionRemitirArchivo", idD, EmptyBody >>,
     << "recepcionArchivar", idA, EmptyBody >> >>

\* the case a request leaves, given the case it finds
After(doc, request) ==
  Persist(doc, doc, Serve(request[1], doc, request[2], request[3]).saves)

\* the cases after each of the first k requests of the route
RECURSIVE RouteUpTo(_)
RouteUpTo(k) ==
  IF k = 0 THEN << >>
  ELSE IF k = 1 THEN << After(NoDoc, RouteRequests[1]) >>
  ELSE Append(RouteUpTo(k - 1), After(RouteUpTo(k - 1)[k - 1], RouteRequests[k]))

RouteDocs == RouteUpTo(Len(RouteRequests))

\* the case the k-th request of the route finds
RouteDocBefore(k) == IF k = 1 THEN NoDoc ELSE RouteDocs[k - 1]

\* the last request was the k-th of the route, on the case the route had
\* brought about until then
RouteStep(k) ==
  /\ req.op = RouteRequests[k][1]
  /\ req.caller = RouteRequests[k][2]
  /\ req.body = RouteRequests[k][3]
  /\ pre = RouteDocBefore(k)

\* the states of the enumeration in its order, without the two unproduced
RouteStates ==
  << EN_RECEPCION, EN_DIRECCION_POR_INSTRUIR, EN_SUBDIRECCION_POR_RECIBIR,
     RECIBIDO_EN_SUBDIRECCION, EN_DEPARTAMENTO_POR_RECIBIR, RECIBIDO_EN_DEPARTAMENTO,
     ASIGNADO_A_TECNICO, EN_TRABAJO_TECNICO, RESUELTO_POR_TECNICO,
     EN_SUBDIRECCION_REVISION, EN_DIRECCION_REVISION_FINAL, EN_RECEPCION_PARA_ARCHIVO,
     ARCHIVADO >>

RoutedToDepartment(doc) ==
  \E i \in 1..Len(doc.historial) :
    /\ doc.historial[i].action = "DIR_INSTRUYE_ENVIA"
    /\ doc.historial[i].toState = EN_DEPARTAMENTO_POR_RECIBIR

\* the specialist's assignment is refused while the case has no owning user
C28_AssignRefused ==
  (Answered("jefeAsignarTecnico") /\ pre.ownerUserId = NULL /\ ~IsSuper(req.caller))
    => resp = 403 /\ caso.estado # ASIGNADO_A_TECNICO

StateAndOwner(doc) == << doc.estado, doc.ownerDept, doc.ownerRole, doc.ownerUserId >>

\* what the request on slot i would have left with no other request around:
\* its saves applied to the case it loaded
Alone(i) ==
  Persist(slots[i].base, slots[i].base,
          Serve(slots[i].req.op, slots[i].base, slots[i].req.caller,
                slots[i].req.body).saves)

\* two transition requests on the case have both been answered
BothAnswered ==
  \A i \in 1..2 : slots[i].phase = "done" /\ slots[i].req.op \in TransitionOps

DepartmentsUnder(subdireccion) ==
  UNION { SeqRange(SUBDIR_MAP_VALUES[k]) :
            k \in { j \in 1..Len(SUBDIRS) : SUBDIRS[j] = subdireccion } }

\* a case routed through a subdirection that is with the department
InRoutedDepartment(doc) ==
  /\ doc # NoDoc
  /\ doc.destinoTipo = "SUBDIRECCION"
  /\ doc.estado \in { EN_DEPARTAMENTO_POR_RECIBIR, RECIBIDO_EN_DEPARTAMENTO,
                      ASIGNADO_A_TECNICO, EN_TRABAJO_TECNICO, RESUELTO_POR_TECNICO }

=============================================================================
